---- MODULE Spec2Model ----
(***************************************************************************)
(* Route planning (core/astar.py) and the vehicle-following control loop  *)
(* (core/control.py, core/main.py, core/main_fixed.py) of                 *)
(* Airsim101_Yolov10.                                                     *)
(*                                                                         *)
(* Numbers.  Python floats are modelled as exact reals over inputs on     *)
(* which every quantity the code computes is an integer: all roadmap      *)
(* coordinates are drawn from Pts, four points whose pairwise Euclidean   *)
(* distances are 0, 3, 4, 5 or 6, so heuristic() is exact and sums of     *)
(* edge lengths are exact.                                                *)
(***************************************************************************)
EXTENDS Integers, Naturals, Sequences, FiniteSets, TLC

VARIABLES
    \* ---- core/astar.py: module globals and arguments
    coordinates,    \* config.coordinates: node -> (x, y), a dict
    graph,          \* the graph argument: node -> list of neighbour nodes
    start_coord,    \* argument
    goal_coord,     \* argument
    \* ---- core/astar.py: locals of astar
    apc,            \* position in astar: "call", "loop", "returned", "raised"
    start_node,
    goal_node,
    open_list,      \* the heap, kept here in insertion order
    came_from,
    g_score,
    f_score,
    route,          \* the value astar returned
    error,          \* the exception astar raised, "" when none
    pops,           \* number of heappop calls made (history)
    \* ---- the simulator and the process (external to the core)
    world,          \* what the simulator may report: [poses, step, headings, frames]
    pose,           \* where the vehicle is
    apiControl,     \* client.enableApiControl state
    lastCmd,        \* the last command the vehicle received, from any thread
    alive,          \* the Python process is running
    \* ---- core/main.py, core/main_fixed.py: main from control_thread.start() on
    entry,          \* which main runs: "simple" or "retrying"
    mpc,            \* position in main
    attempts,       \* main.py: connection attempts made so far
    interrupted,    \* KeyboardInterrupt was raised in main (history)
    validated,      \* how main's last connection attempt went: "True", "False",
                    \* "raised"; "none" before the first (history)
    \* ---- core/control.py: control_vehicle and go_reverse
    path,           \* argument: the route, a list of coordinates
    car_controls,   \* the CarControls object shared by main and the thread
    dpc,            \* position in control_vehicle / go_reverse
    wp,             \* index in path of the for loop's waypoint, 0 before the loop
    stuck_counter,
    stuck_position,
    current_position,
    car_heading,
    frame,          \* the sensor readings of this tick
    ret,            \* go_reverse: the call site to return to
    rev_position,   \* go_reverse: its current_position
    distance_covered,
    lastPoll,       \* what yolov10_object_detection returned in this tick (history)
    tickLog,        \* the events of the current tick, in order (history)
    driveCmd,       \* the last command control_vehicle issued (history)
    stillRun,       \* ticks read so far, all without displacement, since the drive
                    \* started or a stuck recovery returned; None once broken (history)
    \* ---- core/control.py: one call of pure_pursuit_control
    ppc,                 \* position in the call: "none", "call", "returned"
    pp_current_position, \* argument
    pp_current_heading,  \* argument, degrees
    pp_target_position,  \* argument
    pp_result,           \* the value returned
    \* ---- utils/robust_image.py, utils/image_utils.py: one call of get_image_safe
    ipc,                  \* position in the call: "none", "loop", "returned"
    img_module,           \* whose get_image_safe: "robust_image" or "image_utils"
    return_none_on_error, \* argument (image_utils only; TRUE where there is none)
    retries,              \* argument
    compress,             \* argument, rebound by get_image after a first failure
    attempt,              \* loop variable of get_image
    last_error,           \* last_error / last_exception: what the last failed attempt met
    compress_arg,         \* compress as the caller passed it (history)
    img_result,           \* how the call ended: "image", "None", "raised"; "none" before
    methods,              \* the method of each attempt made so far (history)
    sleeps,               \* number of time.sleep calls made by get_image (history)
    \* ---- detection/object_detection.py: calls of yolov10_object_detection
    opc,                  \* position: "none", "call" (about to be called), "image", "raised"
    poll_key,             \* what cv2.waitKey gave in the last call: "q", "other", "none"
    poll_results          \* what the calls made so far returned: "True" / "False"

astarVars == <<coordinates, graph, start_coord, goal_coord, apc, start_node,
               goal_node, open_list, came_from, g_score, f_score, route, error, pops>>

simVars == <<world, pose, apiControl, lastCmd, alive>>

mainVars == <<entry, mpc, attempts, interrupted, validated>>

driveVars == <<path, car_controls, dpc, wp, stuck_counter, stuck_position,
               current_position, car_heading, frame, ret, rev_position,
               distance_covered, lastPoll, tickLog, driveCmd, stillRun>>

steerVars == <<ppc, pp_current_position, pp_current_heading, pp_target_position, pp_result>>

imgVars == <<ipc, img_module, return_none_on_error, retries, compress, attempt, last_error,
             compress_arg, img_result, methods, sleeps>>

pollVars == <<opc, poll_key, poll_results>>

vars == <<astarVars, simVars, mainVars, driveVars, steerVars, imgVars, pollVars>>

----------------------------------------------------------------------------
(* Bounds of the model *)

\* Node identifiers are 0 .. NumNodes-1; 0 is an identifier Python treats as false.
NumNodes == 4
\* A roadmap has at most MaxEdges directed edges.
MaxEdges == 4
\* A roadmap that leaves nodes out of a dict (a node without an adjacency entry,
\* a neighbour without a coordinate) has at most SmallEdges directed edges.
SmallEdges == 2

NodeIds == 0 .. (NumNodes - 1)

\* Four points with integer pairwise distances: an isosceles triangle
\* (0,0), (6,0), (3,4) and the midpoint (3,0) of its base.
Pts == << <<0, 0>>, <<3, 4>>, <<3, 0>>, <<6, 0>> >>
NumPts == Len(Pts)
Points == {Pts[i] : i \in 1 .. NumPts}

\* Python's None (came_from's initial value, the idle value of a local).
None == -1
\* float('infinity')
Infinity == 1000000

----------------------------------------------------------------------------
(* Pure helpers *)

RECURSIVE ISqrtFrom(_, _)
ISqrtFrom(n, r) == IF (r + 1) * (r + 1) > n THEN r ELSE ISqrtFrom(n, r + 1)

\* math.sqrt on the model's inputs (perfect squares); the floor otherwise.
ISqrt(n) == ISqrtFrom(n, 0)

\* heuristic(coord1, coord2): the Euclidean distance.
heuristic(coord1, coord2) ==
    ISqrt((coord1[1] - coord2[1]) * (coord1[1] - coord2[1])
          + (coord1[2] - coord2[2]) * (coord1[2] - coord2[2]))

\* Python truthiness of a node identifier or None: `while current_node:`.
Truthy(n) == n # None /\ n # 0

\* A faulty variant, for C16: among equally near nodes the last one wins.
NearestNodeLast(coords, coord) ==
    LET keys == DOMAIN coords
        d == [n \in keys |-> heuristic(coord, coords[n])]
    IN  CHOOSE n \in keys :
           /\ \A m \in keys : d[n] <= d[m]
           /\ \A m \in keys : (m > n) => d[m] > d[n]

\* min(coordinates, key = distance to coord): the first key, in dict order
\* (ascending identifiers here), whose distance is minimal.
NearestNode(coords, coord) ==
    LET keys == DOMAIN coords
        d == [n \in keys |-> heuristic(coord, coords[n])]
    IN  CHOOSE n \in keys :
           /\ \A m \in keys : d[n] <= d[m]
           /\ \A m \in keys : (m < n) => d[m] > d[n]

\* Tuple order of heap entries (f, node): by f, then by node identifier.
EntryLess(a, b) == a[1] < b[1] \/ (a[1] = b[1] /\ a[2] < b[2])

\* A faulty variant, for C1: the frontier popped as a stack, last pushed first.
HeapPopLast(open) == Len(open)

\* heapq.heappop returns the least entry; the index of that entry in open_list.
HeapPopIndex(open) ==
    CHOOSE i \in 1 .. Len(open) :
        \A j \in 1 .. Len(open) : j # i => ~EntryLess(open[j], open[i])

RemoveAt(s, i) == SubSeq(s, 1, i - 1) \o SubSeq(s, i + 1, Len(s))

\* A faulty variant, for C28: an equal score counts as an improvement.
ImprovesOrEqual(tentative, known) == tentative <= known

\* The test of line 62.
Improves(tentative, known) == tentative < known

\* Line 60: the cost of reaching neighbor through current.
TentativeG(g, current, neighbor, coords) ==
    g[current] + heuristic(coords[current], coords[neighbor])

\* Lines 58-66: the for loop over graph[current_node], neighbours in list order.
\* st = [g, f, cf, open].
RECURSIVE Relax(_, _, _, _, _)
Relax(st, current, nbrs, coords, goal) ==
    IF nbrs = <<>> THEN st
    ELSE LET nb == Head(nbrs)
             t  == TentativeG(st.g, current, nb, coords)
             f2 == t + heuristic(coords[nb], coords[goal])
             st2 == IF Improves(t, st.g[nb])
                    THEN [g    |-> [st.g EXCEPT ![nb] = t],
                          f    |-> [st.f EXCEPT ![nb] = f2],
                          cf   |-> [st.cf EXCEPT ![nb] = current],
                          open |-> Append(st.open, <<f2, nb>>)]
                    ELSE st
         IN  Relax(st2, current, Tail(nbrs), coords, goal)

\* Lines 52-55: follow came_from while the node is truthy.
RECURSIVE PathBack(_, _, _)
PathBack(cur, cf, coords) ==
    IF ~Truthy(cur) THEN <<>>
    ELSE <<coords[cur]>> \o PathBack(cf[cur], cf, coords)

Reverse(s) == [i \in 1 .. Len(s) |-> s[Len(s) + 1 - i]]

----------------------------------------------------------------------------
(* Inputs: the roadmaps the model enumerates *)

\* The adjacency list of node n under edge set E: ascending identifiers.
RECURSIVE SetToSeq(_)
SetToSeq(S) ==
    IF S = {} THEN <<>>
    ELSE LET m == CHOOSE x \in S : \A y \in S : x <= y
         IN  <<m>> \o SetToSeq(S \ {m})

AdjList(E, n) == SetToSeq({e[2] : e \in {d \in E : d[1] = n}})

\* Layout (b, m) places node i at Pts[((i + b) % m) + 1]: with m = NumPts all of
\* the first NumPts nodes are at distinct points, with m < NumPts some share one.
Layout(k, b, m) == [i \in 0 .. (k - 1) |-> Pts[((i + b) % m) + 1]]

\* The layouts enumerated: two with the nodes at distinct points, in different
\* identifier orders, and one over three points only, where nodes share a point
\* (zero-length edges).
Layouts == {<<0, NumPts>>, <<2, NumPts>>, <<1, NumPts - 1>>}

\* The start and goal coordinates asked for.
QueryPts == {Pts[i] : i \in 1 .. (NumPts - 1)}

\* Edge sets over k keyed nodes: sources are keyed nodes, targets any identifier
\* (an identifier >= k has no coordinate), no self loops, at most MaxEdges edges.
EdgeSets(k, maxE) ==
    {E \in SUBSET {e \in (0 .. (k - 1)) \X NodeIds : e[1] # e[2]} : Cardinality(E) <= maxE}

\* The graph dict: with omit, a node without neighbours has no entry at all.
GraphOf(k, E, omit) ==
    LET keys == IF omit THEN {n \in 0 .. (k - 1) : \E e \in E : e[1] = n}
                ELSE 0 .. (k - 1)
    IN  [n \in keys |-> AdjList(E, n)]

\* astar touches nothing of the vehicle, main or the control thread.
OutsideAstar == UNCHANGED <<simVars, mainVars, driveVars, steerVars, imgVars, pollVars>>

AstarIdle ==
    /\ apc = "call"
    /\ start_node = None /\ goal_node = None
    /\ open_list = <<>> /\ came_from = <<>> /\ g_score = <<>> /\ f_score = <<>>
    /\ route = <<>> /\ error = "" /\ pops = 0

AstarInit ==
    /\ \E lay \in Layouts :
          \/ /\ coordinates = Layout(NumNodes, lay[1], lay[2])
             /\ \E E \in EdgeSets(NumNodes, MaxEdges) : graph = GraphOf(NumNodes, E, FALSE)
          \/ /\ coordinates = Layout(NumNodes, lay[1], lay[2])
             /\ \E E \in EdgeSets(NumNodes, SmallEdges) : graph = GraphOf(NumNodes, E, TRUE)
          \/ \E k \in 0 .. (NumNodes - 1), omit \in BOOLEAN :
                /\ coordinates = Layout(k, lay[1], lay[2])
                /\ \E E \in EdgeSets(k, SmallEdges) : graph = GraphOf(k, E, omit)
    /\ start_coord \in QueryPts
    /\ goal_coord \in QueryPts
    /\ AstarIdle

----------------------------------------------------------------------------
(* core/astar.py: astar *)

\* Lines 38-46.  min() of an empty dict raises ValueError.
AstarSetup ==
    /\ apc = "call"
    /\ IF DOMAIN coordinates = {}
       THEN /\ apc' = "raised" /\ error' = "ValueError"
            /\ UNCHANGED <<start_node, goal_node, open_list, came_from, g_score, f_score>>
       ELSE LET s == NearestNode(coordinates, start_coord)
                g == NearestNode(coordinates, goal_coord)
            IN  /\ start_node' = s
                /\ goal_node' = g
                /\ open_list' = << <<0, s>> >>
                /\ came_from' = [n \in DOMAIN coordinates |-> None]
                /\ g_score' = [n \in DOMAIN coordinates |-> IF n = s THEN 0 ELSE Infinity]
                /\ f_score' = [n \in DOMAIN coordinates |->
                                 IF n = s THEN heuristic(start_coord, coordinates[g]) ELSE Infinity]
                /\ apc' = "loop" /\ error' = ""
    /\ UNCHANGED <<coordinates, graph, start_coord, goal_coord, route, pops>>
    /\ OutsideAstar

\* A faulty variant, for C3: a search that ran dry returns the start alone.
NoPathStartOnly == <<start_coord>>

\* Line 68: `return []`.
NoPath == <<>>

\* Line 48 false, line 68.
AstarExhausted ==
    /\ apc = "loop"
    /\ open_list = <<>>
    /\ route' = NoPath
    /\ apc' = "returned"
    /\ UNCHANGED <<coordinates, graph, start_coord, goal_coord, start_node, goal_node,
                   open_list, came_from, g_score, f_score, error, pops>>
    /\ OutsideAstar

\* Lines 49-56: the goal is popped.
AstarPopGoal ==
    /\ apc = "loop"
    /\ open_list # <<>>
    /\ LET i == HeapPopIndex(open_list)
           current_node == open_list[i][2]
       IN  /\ current_node = goal_node
           /\ open_list' = RemoveAt(open_list, i)
           /\ route' = Reverse(PathBack(current_node, came_from, coordinates))
    /\ pops' = pops + 1
    /\ apc' = "returned"
    /\ UNCHANGED <<coordinates, graph, start_coord, goal_coord, start_node, goal_node,
                   came_from, g_score, f_score, error>>
    /\ OutsideAstar

\* Lines 49, 58-66: another node is popped and its neighbours are relaxed.
AstarExpand ==
    /\ apc = "loop"
    /\ open_list # <<>>
    /\ LET i == HeapPopIndex(open_list)
           current_node == open_list[i][2]
       IN  /\ current_node # goal_node
           /\ current_node \in DOMAIN graph
           /\ \A j \in 1 .. Len(graph[current_node]) : graph[current_node][j] \in DOMAIN coordinates
           /\ LET st == Relax([g |-> g_score, f |-> f_score, cf |-> came_from,
                               open |-> RemoveAt(open_list, i)],
                              current_node, graph[current_node], coordinates, goal_node)
              IN  /\ g_score' = st.g
                  /\ f_score' = st.f
                  /\ came_from' = st.cf
                  /\ open_list' = st.open
    /\ pops' = pops + 1
    /\ UNCHANGED <<coordinates, graph, start_coord, goal_coord, apc, start_node, goal_node,
                   route, error>>
    /\ OutsideAstar

\* Line 58 (graph has no entry for the popped node) or line 59 (a neighbour has
\* no coordinate): KeyError leaves astar.
AstarKeyError ==
    /\ apc = "loop"
    /\ open_list # <<>>
    /\ LET i == HeapPopIndex(open_list)
           current_node == open_list[i][2]
       IN  /\ current_node # goal_node
           /\ \/ current_node \notin DOMAIN graph
              \/ /\ current_node \in DOMAIN graph
                 /\ \E j \in 1 .. Len(graph[current_node]) :
                       graph[current_node][j] \notin DOMAIN coordinates
           /\ open_list' = RemoveAt(open_list, i)
    /\ pops' = pops + 1
    /\ apc' = "raised"
    /\ error' = "KeyError"
    /\ UNCHANGED <<coordinates, graph, start_coord, goal_coord, start_node, goal_node,
                   came_from, g_score, f_score, route>>
    /\ OutsideAstar

----------------------------------------------------------------------------
(* The vehicle-following loop: numbers and inputs *)

\* Distances are exact integers where the code adds them up (go_reverse): the
\* poses the simulator reports lie on one line.  Thresholds are compared on
\* squared distances, which is exact for every pose and waypoint.
\* Throttle is counted in tenths: 0.3 is 3, -0.3 is -3.
\* A steering angle a is kept as <<sign, n, d>> with tan(a)^2 = n/d in lowest
\* terms; 30 degrees is <<1, 1, 3>>, -30 degrees <<-1, 1, 3>>, zero <<0, 0, 1>>.

\* The route has at most MaxRouteLen waypoints.
MaxRouteLen == 2

\* control_vehicle: car_controls.throttle = 0.3
ForwardThrottle == 3
\* go_reverse: reverse_speed = -0.3
ReverseSpeed == -3
\* go_reverse: reverse_distance = 5
ReverseDistance == 5
\* go_reverse: manual_gear = -1
ReverseGear == -1
\* control_vehicle: if front_distance < 4
FrontStop == 4
\* control_vehicle: left_distance < 1, right_distance < 1
SideStop == 1
\* control_vehicle: front_left_distance < 2, front_right_distance < 2
DiagStop == 2
\* control_vehicle: distance(current_position, waypoint) < 5
ArrivalRadius == 5
\* control_vehicle: distance(current_position, stuck_position) > 1
StuckRadius == 1
\* control_vehicle: stuck_counter > 100
StuckLimit == 100
\* pure_pursuit_control: ld = 4
LookAhead == 4
\* pure_pursuit_control: the factor 2 * 2.5
TwoL == 5
\* go_reverse: pure_pursuit_control(new_position, 180, target_position)
ReverseHeading == 180

WayPts == << <<8, 1>>, <<1, -4>>, <<4, 3>> >>
Routes == {SubSeq(WayPts, 1, n) : n \in 0 .. MaxRouteLen}

\* No position held (a local not yet assigned, or stuck_position = NoPos).
NoPos == <<>>

PosA == <<0, 0>>
PosB == <<1, 0>>
PosC == <<4, 0>>
PosD == <<8, 0>>
AllPoses == {PosA, PosB, PosC, PosD}

\* Poses more than the stuck radius apart.
FarPoses == {PosA, PosC, PosD}
AllHeadings == {0, 90}

\* Sensor frames: each reading is either just below its threshold or at it.
AllFrames ==
    [front       : {FrontStop - 1, FrontStop},
     front_left  : {DiagStop - 1, DiagStop},
     front_right : {DiagStop - 1, DiagStop},
     left        : {SideStop - 1, SideStop},
     right       : {SideStop - 1, SideStop}]

ClearFrame == [front |-> FrontStop, front_left |-> DiagStop, front_right |-> DiagStop,
               left |-> SideStop, right |-> SideStop]
NoFrame == [front |-> None, front_left |-> None, front_right |-> None,
            left |-> None, right |-> None]

Dist2(pt1, pt2) ==
    (pt1[1] - pt2[1]) * (pt1[1] - pt2[1]) + (pt1[2] - pt2[2]) * (pt1[2] - pt2[2])

\* utils.common.distance
distance(pt1, pt2) == ISqrt(Dist2(pt1, pt2))

RECURSIVE GCD(_, _)
GCD(a, b) == IF b = 0 THEN a ELSE GCD(b, a % b)

Sign(x) == IF x > 0 THEN 1 ELSE IF x < 0 THEN -1 ELSE 0

CosDeg(h) == CASE h = 0 -> 1 [] h = 90 -> 0 [] h = 180 -> -1 [] h = -90 -> 0
SinDeg(h) == CASE h = 0 -> 0 [] h = 90 -> 1 [] h = 180 -> 0 [] h = -90 -> -1

\* np.deg2rad(30) and its negative, np.deg2rad(-30).
MaxSteer == <<1, 1, 3>>
MinSteer == <<-1, 1, 3>>
ZeroSteer == <<0, 0, 1>>

\* A faulty variant, for C17: the angle is returned as computed.
SteerClipNone(sg, n, d) == <<sg, n, d>>

\* Lines 30-31, np.clip: an angle of sign sg with tan^2 = n / d, cut at 30 degrees.
SteerClip(sg, n, d) == IF 3 * n >= d THEN <<sg, 1, 3>> ELSE <<sg, n, d>>

\* pure_pursuit_control with ld = 4.  With r the distance to the target,
\* sin(alpha) = s / r for s = dy * cos(h) - dx * sin(h); np.arctan2(0, 0) is 0,
\* so a target at the current position is seen in direction (1, 0).
\* tan(steering)^2 = (TwoL * sin(alpha) / ld)^2, clipped at tan(30 deg)^2 = 1/3.
pure_pursuit_control(pos, heading, target) ==
    LET dx == target[1] - pos[1]
        dy == target[2] - pos[2]
        ux == IF dx = 0 /\ dy = 0 THEN 1 ELSE dx
        uy == IF dx = 0 /\ dy = 0 THEN 0 ELSE dy
        r2 == ux * ux + uy * uy
        sn == uy * CosDeg(heading) - ux * SinDeg(heading)
        n  == TwoL * TwoL * sn * sn
        d  == LookAhead * LookAhead * r2
        g  == GCD(n, d)
    IN  IF sn = 0 THEN ZeroSteer
        ELSE SteerClip(Sign(sn), n \div g, d \div g)

\* airsim.CarControls(): the defaults of a fresh object.
FreshControls ==
    [steering |-> ZeroSteer, throttle |-> 0, brake |-> 0,
     is_manual_gear |-> FALSE, manual_gear |-> 0]

NoCmd == [ctl |-> FreshControls, src |-> "none"]

\* client.setCarControls(car_controls), from the statement named by src.
Sent(ctl, src) == [ctl |-> ctl, src |-> src]

AstarNotRun ==
    /\ coordinates = <<>> /\ graph = <<>>
    /\ start_coord = None /\ goal_coord = None
    /\ AstarIdle

\* main has the route astar returned and is about to connect; no thread yet.
DriveStart ==
    /\ pose = PosA
    /\ apiControl = FALSE
    /\ lastCmd = NoCmd
    /\ alive = TRUE
    /\ mpc = "plan"
    /\ attempts = 0
    /\ interrupted = FALSE
    /\ validated = "none"
    /\ car_controls = FreshControls
    /\ dpc = "none"
    /\ wp = 0
    /\ stuck_counter = 0
    /\ stuck_position = NoPos
    /\ current_position = NoPos
    /\ car_heading = None
    /\ frame = NoFrame
    /\ ret = "none"
    /\ rev_position = NoPos
    /\ distance_covered = 0
    /\ lastPoll = "none"
    /\ tickLog = <<>>
    /\ driveCmd = NoCmd
    /\ stillRun = 0

\* Nothing of the vehicle loop exists while only astar runs.
DriveIdle ==
    /\ world = [poses |-> {}, step |-> <<>>, headings |-> {}, frames |-> {}]
    /\ pose = NoPos
    /\ entry = "none"
    /\ path = <<>>
    /\ apiControl = FALSE
    /\ lastCmd = NoCmd
    /\ alive = TRUE
    /\ mpc = "none"
    /\ attempts = 0
    /\ interrupted = FALSE
    /\ validated = "none"
    /\ car_controls = FreshControls
    /\ dpc = "none"
    /\ wp = 0
    /\ stuck_counter = 0
    /\ stuck_position = NoPos
    /\ current_position = NoPos
    /\ car_heading = None
    /\ frame = NoFrame
    /\ ret = "none"
    /\ rev_position = NoPos
    /\ distance_covered = 0
    /\ lastPoll = "none"
    /\ tickLog = <<>>
    /\ driveCmd = NoCmd
    /\ stillRun = 0

AstarNext ==
    \/ AstarSetup
    \/ AstarExhausted
    \/ AstarPopGoal
    \/ AstarExpand
    \/ AstarKeyError

\* No call of pure_pursuit_control is followed on its own.
SteerIdle ==
    /\ ppc = "none"
    /\ pp_current_position = NoPos /\ pp_target_position = NoPos
    /\ pp_current_heading = None
    /\ pp_result = ZeroSteer

\* No call of yolov10_object_detection is followed on its own.
PollIdle == opc = "none" /\ poll_key = "none" /\ poll_results = <<>>

\* No call of get_image_safe is followed on its own.
ImgIdle ==
    /\ ipc = "none"
    /\ img_module = "none"
    /\ return_none_on_error = TRUE
    /\ retries = 0 /\ attempt = 0
    /\ compress = TRUE /\ compress_arg = TRUE
    /\ last_error = "none"
    /\ methods = <<>> /\ sleeps = 0
    /\ img_result = "none"

\* A call of astar on its own: nothing of the vehicle is running.
AstarStart == AstarInit /\ DriveIdle /\ SteerIdle /\ ImgIdle /\ PollIdle

SpecAstar == AstarStart /\ [][AstarNext]_vars

\* The roadmaps on which the end of the search is followed: FairNodes nodes,
\* at distinct points or with the first and the last at one point (zero-length
\* edges), any edges among them (cycles included) and to an absent node.
FairNodes == 3
FairLayouts == {<<0, NumPts>>, <<0, FairNodes - 1>>}

AstarFairStart ==
    /\ \E lay \in FairLayouts :
          /\ coordinates = Layout(FairNodes, lay[1], lay[2])
          /\ \E E \in EdgeSets(FairNodes, MaxEdges) : graph = GraphOf(FairNodes, E, FALSE)
    /\ start_coord \in QueryPts
    /\ goal_coord \in QueryPts
    /\ AstarIdle
    /\ DriveIdle /\ SteerIdle /\ ImgIdle /\ PollIdle

\* astar is a function running to its end: once called, it keeps taking its
\* next step.
SpecAstarFair == AstarFairStart /\ [][AstarNext]_vars /\ WF_vars(AstarNext)

----------------------------------------------------------------------------
(* core/control.py: control_vehicle and go_reverse, one thread *)

\* The thread and main leave the planner's variables alone.
OutsideDrive == UNCHANGED <<astarVars, steerVars, imgVars, pollVars>>

\* The current tick's events; consecutive go_reverse loop commands are logged once.
Logged(log, ev) == IF log # <<>> /\ log[Len(log)] = ev THEN log ELSE Append(log, ev)

waypoint == path[wp]

\* Line 84: `for waypoint in path`, and the fall-through to line 124.
ForNext ==
    /\ alive /\ dpc = "for"
    /\ IF wp < Len(path)
       THEN wp' = wp + 1 /\ dpc' = "tick"
       ELSE wp' = wp /\ dpc' = "stop"
    /\ UNCHANGED <<path, car_controls, stuck_counter, stuck_position, current_position,
                   car_heading, frame, ret, rev_position, distance_covered, lastPoll,
                   tickLog, driveCmd>>
    /\ UNCHANGED <<simVars, mainVars>>
    /\ UNCHANGED stillRun
    /\ OutsideDrive

\* Lines 86-95: the perception poll (its result is dropped), the pose, the
\* nominal steering and throttle, the sensor frame.
TickSense ==
    /\ alive /\ dpc = "tick"
    /\ \E cont \in BOOLEAN, p \in world.step[pose], h \in world.headings, fr \in world.frames :
          /\ lastPoll' = IF cont THEN "True" ELSE "False"
          /\ pose' = p
          /\ current_position' = p
          /\ car_heading' = h
          /\ car_controls' = [car_controls EXCEPT
                                 !.steering = pure_pursuit_control(p, h, waypoint),
                                 !.throttle = ForwardThrottle]
          /\ frame' = fr
          /\ stillRun' = IF stillRun # None /\ Dist2(pose, p) < StuckRadius * StuckRadius
                         THEN stillRun + 1 ELSE None
    /\ tickLog' = <<"poll", "pose", "sensors">>
    /\ dpc' = "decide"
    /\ UNCHANGED <<path, wp, stuck_counter, stuck_position, ret, rev_position,
                   distance_covered, driveCmd>>
    /\ UNCHANGED <<world, apiControl, lastCmd, alive, mainVars>>
    /\ OutsideDrive

\* A faulty variant, for C9: a low side reading defeats the front test.
FrontBlockedUnlessSide(fr) ==
    /\ fr.front < FrontStop
    /\ ~(fr.left < SideStop \/ fr.front_left < DiagStop)
    /\ ~(fr.right < SideStop \/ fr.front_right < DiagStop)

\* The conditions of lines 97, 101 and 103.
FrontBlocked(fr) == fr.front < FrontStop

\* A faulty variant, for C20: the diagonal reading is left out.
LeftCloseSideOnly(fr) == fr.left < SideStop

\* Line 101.
LeftClose(fr) == fr.left < SideStop \/ fr.front_left < DiagStop

\* Line 103.
RightClose(fr) == fr.right < SideStop \/ fr.front_right < DiagStop

\* Lines 97-100: throttle 0, a command, and the call of go_reverse.
TickFrontBlocked ==
    /\ alive /\ dpc = "decide"
    /\ FrontBlocked(frame)
    /\ car_controls' = [car_controls EXCEPT !.throttle = 0]
    /\ lastCmd' = Sent(car_controls', "front_stop")
    /\ driveCmd' = Sent(car_controls', "front_stop")
    /\ tickLog' = Logged(tickLog, "front_stop")
    /\ lastPoll' = "none"
    /\ ret' = "front"
    /\ rev_position' = current_position
    /\ dpc' = "rev_init"
    /\ UNCHANGED <<path, wp, stuck_counter, stuck_position, current_position, car_heading,
                   frame, distance_covered>>
    /\ UNCHANGED <<world, pose, apiControl, alive, mainVars>>
    /\ stillRun' = None
    /\ OutsideDrive

\* Lines 101-102.
TickLeft ==
    /\ alive /\ dpc = "decide"
    /\ ~FrontBlocked(frame) /\ LeftClose(frame)
    /\ car_controls' = [car_controls EXCEPT !.steering = MaxSteer]
    /\ tickLog' = Logged(tickLog, "override")
    /\ dpc' = "issue"
    /\ UNCHANGED <<path, wp, stuck_counter, stuck_position, current_position, car_heading,
                   frame, ret, rev_position, distance_covered, lastPoll, driveCmd>>
    /\ UNCHANGED <<simVars, mainVars>>
    /\ UNCHANGED stillRun
    /\ OutsideDrive

\* Lines 103-104.
TickRight ==
    /\ alive /\ dpc = "decide"
    /\ ~FrontBlocked(frame) /\ ~LeftClose(frame) /\ RightClose(frame)
    /\ car_controls' = [car_controls EXCEPT !.steering = MinSteer]
    /\ tickLog' = Logged(tickLog, "override")
    /\ dpc' = "issue"
    /\ UNCHANGED <<path, wp, stuck_counter, stuck_position, current_position, car_heading,
                   frame, ret, rev_position, distance_covered, lastPoll, driveCmd>>
    /\ UNCHANGED <<simVars, mainVars>>
    /\ UNCHANGED stillRun
    /\ OutsideDrive

\* A faulty variant, for C26: a tick without override goes to the arrival
\* test without sending its command.
TickClearSkipsIssue ==
    /\ alive /\ dpc = "decide"
    /\ ~FrontBlocked(frame) /\ ~LeftClose(frame) /\ ~RightClose(frame)
    /\ dpc' = "arrive"
    /\ UNCHANGED <<path, car_controls, wp, stuck_counter, stuck_position, current_position,
                   car_heading, frame, ret, rev_position, distance_covered, lastPoll,
                   tickLog, driveCmd>>
    /\ UNCHANGED <<simVars, mainVars>>
    /\ UNCHANGED stillRun
    /\ OutsideDrive

\* None of the three conditions holds.
TickClear ==
    /\ alive /\ dpc = "decide"
    /\ ~FrontBlocked(frame) /\ ~LeftClose(frame) /\ ~RightClose(frame)
    /\ dpc' = "issue"
    /\ UNCHANGED <<path, car_controls, wp, stuck_counter, stuck_position, current_position,
                   car_heading, frame, ret, rev_position, distance_covered, lastPoll,
                   tickLog, driveCmd>>
    /\ UNCHANGED <<simVars, mainVars>>
    /\ UNCHANGED stillRun
    /\ OutsideDrive

\* Line 106: client.setCarControls(car_controls), on every path through the if.
TickIssue ==
    /\ alive /\ dpc = "issue"
    /\ lastCmd' = Sent(car_controls, "tick")
    /\ driveCmd' = Sent(car_controls, "tick")
    /\ tickLog' = Logged(tickLog, "tick")
    /\ lastPoll' = "none"
    /\ frame' = NoFrame
    /\ dpc' = "arrive"
    /\ UNCHANGED <<path, car_controls, wp, stuck_counter, stuck_position, current_position,
                   car_heading, ret, rev_position, distance_covered>>
    /\ UNCHANGED <<world, pose, apiControl, alive, mainVars>>
    /\ UNCHANGED stillRun
    /\ OutsideDrive

\* A faulty variant, for C21: a pose exactly 5 away counts as arrived.
ArrivedAtRadius == Dist2(current_position, waypoint) <= ArrivalRadius * ArrivalRadius

\* Line 108.
Arrived == Dist2(current_position, waypoint) < ArrivalRadius * ArrivalRadius

\* A faulty variant, for C22: a displacement of exactly 1 counts as progress.
StuckResetAtRadius ==
    \/ stuck_position = NoPos
    \/ Dist2(current_position, stuck_position) >= StuckRadius * StuckRadius

\* Line 111.
StuckReset ==
    \/ stuck_position = NoPos
    \/ Dist2(current_position, stuck_position) > StuckRadius * StuckRadius

\* Lines 111-115: the counter after this tick's bookkeeping.
NextStuckCounter == IF StuckReset THEN 0 ELSE stuck_counter + 1

\* Line 117.
StuckTriggered(counter) == counter > StuckLimit

\* Lines 108-109: the waypoint is reached, break.
TickArrived ==
    /\ alive /\ dpc = "arrive"
    /\ Arrived
    /\ dpc' = "for"
    /\ current_position' = NoPos /\ car_heading' = None
    /\ tickLog' = <<>>
    /\ UNCHANGED <<path, car_controls, wp, stuck_counter, stuck_position, frame, ret,
                   rev_position, distance_covered, lastPoll, driveCmd>>
    /\ UNCHANGED <<simVars, mainVars>>
    /\ stillRun' = None
    /\ OutsideDrive

\* Lines 111-117 and 122: bookkeeping, no recovery, sleep.
TickNotStuck ==
    /\ alive /\ dpc = "arrive"
    /\ ~Arrived
    /\ ~StuckTriggered(NextStuckCounter)
    /\ stuck_counter' = NextStuckCounter
    /\ stuck_position' = IF StuckReset THEN current_position ELSE stuck_position
    /\ dpc' = "tick"
    /\ current_position' = NoPos /\ car_heading' = None
    /\ tickLog' = <<>>
    /\ UNCHANGED <<path, car_controls, wp, frame, ret, rev_position, distance_covered,
                   lastPoll, driveCmd>>
    /\ UNCHANGED <<simVars, mainVars>>
    /\ UNCHANGED stillRun
    /\ OutsideDrive

\* Lines 111-118: the counter passes the limit, go_reverse is called.
TickStuck ==
    /\ alive /\ dpc = "arrive"
    /\ ~Arrived
    /\ StuckTriggered(NextStuckCounter)
    /\ stuck_counter' = NextStuckCounter
    /\ stuck_position' = IF StuckReset THEN current_position ELSE stuck_position
    /\ tickLog' = Logged(tickLog, "stuck")
    /\ ret' = "stuck"
    /\ rev_position' = current_position
    /\ dpc' = "rev_init"
    /\ UNCHANGED <<path, car_controls, wp, current_position, car_heading, frame,
                   distance_covered, lastPoll, driveCmd>>
    /\ UNCHANGED <<simVars, mainVars>>
    /\ UNCHANGED stillRun
    /\ OutsideDrive

\* A faulty variant, for C25: go_reverse sets the throttle and leaves the gear.
RevInitGearLeft ==
    /\ alive /\ dpc = "rev_init"
    /\ distance_covered' = 0
    /\ car_controls' = [car_controls EXCEPT !.throttle = ReverseSpeed]
    /\ dpc' = "rev_loop"
    /\ UNCHANGED <<path, wp, stuck_counter, stuck_position, current_position, car_heading,
                   frame, ret, rev_position, lastPoll, tickLog, driveCmd>>
    /\ UNCHANGED <<simVars, mainVars>>
    /\ UNCHANGED stillRun
    /\ OutsideDrive

\* A faulty variant, for C23: go_reverse clears the stuck detector as it starts.
RevInitClearsDetector ==
    /\ alive /\ dpc = "rev_init"
    /\ distance_covered' = 0
    /\ car_controls' = [car_controls EXCEPT !.throttle = ReverseSpeed,
                                            !.is_manual_gear = TRUE,
                                            !.manual_gear = ReverseGear]
    /\ dpc' = "rev_loop"
    /\ stuck_counter' = 0 /\ stuck_position' = NoPos
    /\ UNCHANGED <<path, wp, current_position, car_heading,
                   frame, ret, rev_position, lastPoll, tickLog, driveCmd>>
    /\ UNCHANGED <<simVars, mainVars>>
    /\ UNCHANGED stillRun
    /\ OutsideDrive

\* go_reverse, lines 44-49.
RevInit ==
    /\ alive /\ dpc = "rev_init"
    /\ distance_covered' = 0
    /\ car_controls' = [car_controls EXCEPT !.throttle = ReverseSpeed,
                                            !.is_manual_gear = TRUE,
                                            !.manual_gear = ReverseGear]
    /\ dpc' = "rev_loop"
    /\ UNCHANGED <<path, wp, stuck_counter, stuck_position, current_position, car_heading,
                   frame, ret, rev_position, lastPoll, tickLog, driveCmd>>
    /\ UNCHANGED <<simVars, mainVars>>
    /\ UNCHANGED stillRun
    /\ OutsideDrive

\* A faulty variant, for C24: the loop goes on at exactly 5.
RevContinuesAtLimit(covered) == covered <= ReverseDistance

\* Line 51.
RevContinues(covered) == covered < ReverseDistance

\* A faulty variant, for C35: every turn of the loop counts as one unit covered.
RevStepCountsTurns ==
    /\ alive /\ dpc = "rev_loop"
    /\ RevContinues(distance_covered)
    /\ \E p \in world.step[pose] :
          /\ pose' = p
          /\ car_controls' = [car_controls EXCEPT
                                 !.steering = pure_pursuit_control(p, ReverseHeading, waypoint)]
          /\ distance_covered' = distance_covered + 1
          /\ rev_position' = p
    /\ lastCmd' = Sent(car_controls', "rev")
    /\ driveCmd' = Sent(car_controls', "rev")
    /\ tickLog' = Logged(tickLog, "rev")
    /\ UNCHANGED <<path, dpc, wp, stuck_counter, stuck_position, current_position,
                   car_heading, frame, ret, lastPoll>>
    /\ UNCHANGED <<world, apiControl, alive, mainVars>>
    /\ UNCHANGED stillRun
    /\ OutsideDrive

\* go_reverse, lines 51-60: one turn of the loop.
RevStep ==
    /\ alive /\ dpc = "rev_loop"
    /\ RevContinues(distance_covered)
    /\ \E p \in world.step[pose] :
          /\ pose' = p
          /\ car_controls' = [car_controls EXCEPT
                                 !.steering = pure_pursuit_control(p, ReverseHeading, waypoint)]
          /\ distance_covered' = distance_covered + distance(rev_position, p)
          /\ rev_position' = p
    /\ lastCmd' = Sent(car_controls', "rev")
    /\ driveCmd' = Sent(car_controls', "rev")
    /\ tickLog' = Logged(tickLog, "rev")
    /\ UNCHANGED <<path, dpc, wp, stuck_counter, stuck_position, current_position,
                   car_heading, frame, ret, lastPoll>>
    /\ UNCHANGED <<world, apiControl, alive, mainVars>>
    /\ UNCHANGED stillRun
    /\ OutsideDrive

\* go_reverse, lines 62-66, returning to line 106 of the tick that saw the
\* front blocked.
RevExitFront ==
    /\ alive /\ dpc = "rev_loop"
    /\ ~RevContinues(distance_covered)
    /\ ret = "front"
    /\ car_controls' = [car_controls EXCEPT !.is_manual_gear = FALSE,
                                            !.manual_gear = 0,
                                            !.throttle = 0]
    /\ lastCmd' = Sent(car_controls', "rev_exit")
    /\ driveCmd' = Sent(car_controls', "rev_exit")
    /\ tickLog' = Logged(tickLog, "rev_exit")
    /\ ret' = "none" /\ rev_position' = NoPos /\ distance_covered' = 0
    /\ dpc' = "issue"
    /\ UNCHANGED <<path, wp, stuck_counter, stuck_position, current_position, car_heading,
                   frame, lastPoll>>
    /\ UNCHANGED <<world, pose, apiControl, alive, mainVars>>
    /\ UNCHANGED stillRun
    /\ OutsideDrive

\* A faulty variant, for C34: go_reverse returns with the reverse gear engaged.
RevExitStuckGearLeft ==
    /\ alive /\ dpc = "rev_loop"
    /\ ~RevContinues(distance_covered)
    /\ ret = "stuck"
    /\ car_controls' = [car_controls EXCEPT !.throttle = 0]
    /\ lastCmd' = Sent(car_controls', "rev_exit")
    /\ driveCmd' = Sent(car_controls', "rev_exit")
    /\ stuck_counter' = 0
    /\ stuck_position' = NoPos
    /\ ret' = "none" /\ rev_position' = NoPos /\ distance_covered' = 0
    /\ current_position' = NoPos /\ car_heading' = None
    /\ tickLog' = <<>>
    /\ dpc' = "tick"
    /\ UNCHANGED <<path, wp, frame, lastPoll>>
    /\ UNCHANGED <<world, pose, apiControl, alive, mainVars>>
    /\ stillRun' = 0
    /\ OutsideDrive

\* go_reverse, lines 62-66, returning to lines 119-122 of control_vehicle.
RevExitStuck ==
    /\ alive /\ dpc = "rev_loop"
    /\ ~RevContinues(distance_covered)
    /\ ret = "stuck"
    /\ car_controls' = [car_controls EXCEPT !.is_manual_gear = FALSE,
                                            !.manual_gear = 0,
                                            !.throttle = 0]
    /\ lastCmd' = Sent(car_controls', "rev_exit")
    /\ driveCmd' = Sent(car_controls', "rev_exit")
    /\ stuck_counter' = 0
    /\ stuck_position' = NoPos
    /\ ret' = "none" /\ rev_position' = NoPos /\ distance_covered' = 0
    /\ current_position' = NoPos /\ car_heading' = None
    /\ tickLog' = <<>>
    /\ dpc' = "tick"
    /\ UNCHANGED <<path, wp, frame, lastPoll>>
    /\ UNCHANGED <<world, pose, apiControl, alive, mainVars>>
    /\ stillRun' = 0
    /\ OutsideDrive

\* A faulty variant, for C8: the stop command without the brake.
StopControlsNoBrake(ctl) == [ctl EXCEPT !.throttle = 0]

\* Lines 124-125: car_controls.throttle = 0, car_controls.brake = 1.
StopControls(ctl) == [ctl EXCEPT !.throttle = 0, !.brake = 1]

\* Lines 124-127: the stop command after the loop.
DriveStop ==
    /\ alive /\ dpc = "stop"
    /\ car_controls' = StopControls(car_controls)
    /\ lastCmd' = Sent(car_controls', "final")
    /\ driveCmd' = Sent(car_controls', "final")
    /\ tickLog' = Logged(tickLog, "final")
    /\ dpc' = "release"
    /\ UNCHANGED <<path, wp, stuck_counter, stuck_position, current_position, car_heading,
                   frame, ret, rev_position, distance_covered, lastPoll>>
    /\ UNCHANGED <<world, pose, apiControl, alive, mainVars>>
    /\ UNCHANGED stillRun
    /\ OutsideDrive

\* Line 128: client.enableApiControl(False); the thread ends.
DriveRelease ==
    /\ alive /\ dpc = "release"
    /\ apiControl' = FALSE
    /\ tickLog' = Logged(tickLog, "release")
    /\ dpc' = "done"
    /\ UNCHANGED <<path, car_controls, wp, stuck_counter, stuck_position, current_position,
                   car_heading, frame, ret, rev_position, distance_covered, lastPoll, driveCmd>>
    /\ UNCHANGED <<world, pose, lastCmd, alive, mainVars>>
    /\ UNCHANGED stillRun
    /\ OutsideDrive

----------------------------------------------------------------------------
(* core/main_fixed.py and core/main.py: main, after control_thread.start() *)

\* entry = "simple" is main of main_fixed.py, the same as main.py lines 16-54;
\* entry = "retrying" is the second main of main.py (lines 102-204), read with
\* the names logger and time bound, which main.py itself never binds.

\* main.py 137: max_connection_attempts = 3.
MaxConnectionAttempts == 3

\* A faulty variant, for C32: main goes on whatever validate_connection said.
MainConnectSimpleUnchecked ==
    /\ alive /\ mpc = "plan" /\ entry = "simple"
    /\ \E valid \in BOOLEAN : validated' = IF valid THEN "True" ELSE "False"
    /\ mpc' = "enable"
    /\ UNCHANGED <<entry, attempts, interrupted, simVars, driveVars>>
    /\ OutsideDrive

\* main_fixed.py 29-35 (main.py 29-35): connect and validate; a failed
\* validation returns.  The route is not looked at.
MainConnectSimple ==
    /\ alive /\ mpc = "plan" /\ entry = "simple"
    /\ \E valid \in BOOLEAN :
          /\ validated' = IF valid THEN "True" ELSE "False"
          /\ mpc' = IF valid THEN "enable" ELSE "returned"
    /\ UNCHANGED <<entry, attempts, interrupted, simVars, driveVars>>
    /\ OutsideDrive

\* main.py 130-138: an empty route returns; otherwise on to the connection loop.
MainCheckRoute ==
    /\ alive /\ mpc = "plan" /\ entry = "retrying"
    /\ mpc' = IF path = <<>> THEN "returned" ELSE "connect"
    /\ UNCHANGED <<entry, attempts, interrupted, validated, simVars, driveVars>>
    /\ OutsideDrive

\* main.py 140-158: one turn of the connection loop; it ends at the first
\* client whose validation succeeds.
MainAttempt ==
    /\ alive /\ mpc = "connect" /\ entry = "retrying"
    /\ attempts < MaxConnectionAttempts
    /\ attempts' = attempts + 1
    /\ \E outcome \in {"valid", "invalid", "exception"} :
          /\ validated' = CASE outcome = "valid" -> "True"
                             [] outcome = "invalid" -> "False"
                             [] OTHER -> "raised"
          /\ mpc' = IF outcome = "valid" THEN "enable" ELSE "connect"
    /\ UNCHANGED <<entry, interrupted, simVars, driveVars>>
    /\ OutsideDrive

\* A faulty variant, for C33: main goes on without a client.
MainGiveUpGoesOn ==
    /\ alive /\ mpc = "connect" /\ entry = "retrying"
    /\ ~(attempts < MaxConnectionAttempts)
    /\ mpc' = "enable"
    /\ UNCHANGED <<entry, attempts, interrupted, validated, simVars, driveVars>>
    /\ OutsideDrive

\* main.py 160-162: no client after all attempts.
MainGiveUp ==
    /\ alive /\ mpc = "connect" /\ entry = "retrying"
    /\ ~(attempts < MaxConnectionAttempts)
    /\ mpc' = "returned"
    /\ UNCHANGED <<entry, attempts, interrupted, validated, simVars, driveVars>>
    /\ OutsideDrive

\* main_fixed.py 37 (main.py 37, 166): client.enableApiControl(True).
MainEnable ==
    /\ alive /\ mpc = "enable"
    /\ apiControl' = TRUE
    /\ mpc' = "reset"
    /\ UNCHANGED <<entry, attempts, interrupted, validated, world, pose, lastCmd, alive, driveVars>>
    /\ OutsideDrive

\* main_fixed.py 38 (main.py 38, 167): client.reset(), the vehicle is back at
\* its spawn point.
MainReset ==
    /\ alive /\ mpc = "reset"
    /\ pose' = PosA
    /\ mpc' = "start"
    /\ UNCHANGED <<entry, attempts, interrupted, validated, world, apiControl, lastCmd, alive, driveVars>>
    /\ OutsideDrive

\* main_fixed.py 40-42 (main.py 40-42, 169-175): a fresh CarControls object,
\* and the thread starts at the first line of control_vehicle.
MainStartThread ==
    /\ alive /\ mpc = "start"
    /\ car_controls' = FreshControls
    /\ dpc' = "for"
    /\ mpc' = "monitor"
    /\ attempts' = 0            \* the loop variable is not read again
    /\ UNCHANGED <<entry, interrupted, validated, simVars>>
    /\ UNCHANGED <<path, wp, stuck_counter, stuck_position, current_position,
                   car_heading, frame, ret, rev_position, distance_covered, lastPoll,
                   tickLog, driveCmd, stillRun>>
    /\ OutsideDrive

\* control_thread.is_alive(): started and not yet returned.
ThreadAlive == dpc \notin {"none", "done"}

\* The monitoring loop ends: the thread is no longer alive.
MainJoined ==
    /\ alive /\ mpc = "monitor"
    /\ ~ThreadAlive
    /\ mpc' = "finally"
    /\ UNCHANGED <<entry, attempts, interrupted, validated, simVars, driveVars>>
    /\ OutsideDrive

\* KeyboardInterrupt in the monitoring loop while the thread is alive.
MainInterrupt ==
    /\ alive /\ mpc = "monitor"
    /\ ThreadAlive
    /\ mpc' = "finally"
    /\ interrupted' = TRUE
    /\ UNCHANGED <<entry, attempts, validated, simVars, driveVars>>
    /\ OutsideDrive

\* main_fixed.py 50-54 (main.py 50-54): finally, client.enableApiControl(False).
MainFinallySimple ==
    /\ alive /\ mpc = "finally" /\ entry = "simple"
    /\ apiControl' = FALSE
    /\ mpc' = "returned"
    /\ UNCHANGED <<entry, attempts, interrupted, validated, world, pose, lastCmd, alive, driveVars>>
    /\ OutsideDrive

\* main.py 189-192: finally, throttle 0 and brake 1 on the shared object.
MainCleanupSet ==
    /\ alive /\ mpc = "finally" /\ entry = "retrying"
    /\ car_controls' = [car_controls EXCEPT !.throttle = 0, !.brake = 1]
    /\ mpc' = "send"
    /\ UNCHANGED <<entry, attempts, interrupted, validated, simVars>>
    /\ UNCHANGED <<path, dpc, wp, stuck_counter, stuck_position, current_position,
                   car_heading, frame, ret, rev_position, distance_covered, lastPoll,
                   tickLog, driveCmd>>
    /\ UNCHANGED stillRun
    /\ OutsideDrive

\* main.py 193: client.setCarControls(car_controls).
MainCleanupSend ==
    /\ alive /\ mpc = "send"
    /\ lastCmd' = Sent(car_controls, "main")
    /\ mpc' = "disable"
    /\ UNCHANGED <<entry, attempts, interrupted, validated, world, pose, apiControl, alive, driveVars>>
    /\ OutsideDrive

\* main.py 194: client.enableApiControl(False).
MainCleanupRelease ==
    /\ alive /\ mpc = "disable"
    /\ apiControl' = FALSE
    /\ mpc' = "returned"
    /\ UNCHANGED <<entry, attempts, interrupted, validated, world, pose, lastCmd, alive, driveVars>>
    /\ OutsideDrive

\* main.py 174, 208: the thread is a daemon, so it ends with the process when
\* main has returned.  (The thread main_fixed.py starts is no daemon: the
\* process lives until control_vehicle returns.)
MainExit ==
    /\ alive /\ mpc = "returned" /\ entry = "retrying"
    /\ alive' = FALSE
    /\ UNCHANGED <<world, pose, apiControl, lastCmd, mainVars, driveVars>>
    /\ OutsideDrive

ThreadNext ==
    \/ ForNext
    \/ TickSense
    \/ TickFrontBlocked
    \/ TickLeft
    \/ TickRight
    \/ TickClear
    \/ TickIssue
    \/ TickArrived
    \/ TickNotStuck
    \/ TickStuck
    \/ RevInit
    \/ RevStep
    \/ RevExitFront
    \/ RevExitStuck
    \/ DriveStop
    \/ DriveRelease

MainNext ==
    \/ MainConnectSimple
    \/ MainCheckRoute
    \/ MainAttempt
    \/ MainGiveUp
    \/ MainEnable
    \/ MainReset
    \/ MainStartThread
    \/ MainJoined
    \/ MainFinallySimple
    \/ MainCleanupSet
    \/ MainCleanupSend
    \/ MainCleanupRelease
    \/ MainExit

\* Frames in which at most one reading on each side is below its threshold;
\* with the front blocked, both sides are clear or both side readings are low.
DriveFrames ==
    {fr \in AllFrames : /\ fr.left = SideStop \/ fr.front_left = DiagStop
                        /\ fr.right = SideStop \/ fr.front_right = DiagStop
                        /\ FrontBlocked(fr) => /\ fr.front_left = DiagStop
                                               /\ fr.front_right = DiagStop
                                               /\ fr.left = fr.right}

BlockedSidesLow == [front |-> FrontStop - 1, front_left |-> DiagStop, front_right |-> DiagStop,
                    left |-> SideStop - 1, right |-> SideStop - 1]

LeftLow == [ClearFrame EXCEPT !.left = SideStop - 1]
RightLow == [ClearFrame EXCEPT !.front_right = DiagStop - 1]

\* A vehicle that is somewhere else at every reading, among obstacles.
MovingWorld ==
    [poses |-> FarPoses, step |-> [p \in FarPoses |-> FarPoses \ {p}],
     headings |-> AllHeadings, frames |-> DriveFrames]

\* A vehicle that may stay where it is, or creep by one unit.
StalledWorld ==
    [poses |-> {PosA, PosB}, step |-> [p \in {PosA, PosB} |-> {PosA, PosB}],
     headings |-> {0}, frames |-> {ClearFrame, BlockedSidesLow}]

\* The route is whatever astar returned, the empty route included.
DriveInit ==
    /\ AstarNotRun
    /\ world \in {MovingWorld, StalledWorld}
    /\ entry \in {"simple", "retrying"}
    /\ path \in Routes
    /\ DriveStart
    /\ SteerIdle
    /\ ImgIdle /\ PollIdle

\* The drive without cancellation: main only monitors.
DriveNext == ThreadNext \/ MainNext

SpecDrive == DriveInit /\ [][DriveNext]_vars

\* The frames of the drive under fairness: clear, front blocked, one side low.
FairFrames == {ClearFrame, BlockedSidesLow, LeftLow, RightLow}

\* A vehicle whose pose never changes.
FrozenWorld ==
    [poses |-> {PosA}, step |-> [p \in {PosA} |-> {PosA}],
     headings |-> {0}, frames |-> FairFrames]

\* A route whose first point is near and whose second point is out of reach.
FairRoute == <<WayPts[2], WayPts[1]>>

\* That route, and the route that ends at the near point.
FairRoutes == {SubSeq(FairRoute, 1, 1), FairRoute}

ReverseInit ==
    /\ AstarNotRun
    /\ world \in {FrozenWorld, StalledWorld}
    /\ entry \in {"simple", "retrying"}
    /\ path \in FairRoutes
    /\ DriveStart
    /\ SteerIdle
    /\ ImgIdle /\ PollIdle

\* One turn of the loop of go_reverse that reads a pose other than the last.
RevStepDisplaced == RevStep /\ pose' # pose

\* The thread is scheduled again and again (time.sleep returns), and the
\* vehicle keeps displacing while it reverses.
SpecReverse ==
    /\ ReverseInit /\ [][DriveNext]_vars
    /\ WF_vars(ThreadNext)
    /\ WF_vars(RevStepDisplaced)

\* The drive with cancellation, among fewer obstacles.
CancelMoving ==
    [poses |-> {PosA, PosC}, step |-> [p \in {PosA, PosC} |-> {PosA, PosC} \ {p}],
     headings |-> {0}, frames |-> {ClearFrame, BlockedSidesLow, LeftLow, RightLow}]

CancelStalled ==
    [poses |-> {PosA, PosB}, step |-> [p \in {PosA, PosB} |-> {PosA, PosB}],
     headings |-> {0}, frames |-> {ClearFrame}]

CancelInit ==
    /\ AstarNotRun
    /\ world \in {CancelMoving, CancelStalled}
    /\ entry \in {"simple", "retrying"}
    /\ path \in Routes
    /\ DriveStart
    /\ SteerIdle
    /\ ImgIdle /\ PollIdle

CancelNext == ThreadNext \/ MainNext \/ MainInterrupt

SpecCancel == CancelInit /\ [][CancelNext]_vars

----------------------------------------------------------------------------
(* core/control.py: pure_pursuit_control, called on its own *)

\* Positions and targets of the calls followed; (0,0) to (0,10) is the
\* scenario of the specification.
SteerPts == {<<0, 0>>, <<0, 10>>, <<4, 3>>, <<8, 1>>, <<-3, 0>>}
SteerHeadings == {0, 90, 180, -90}

SteerInit ==
    /\ AstarNotRun
    /\ DriveIdle
    /\ ppc = "call"
    /\ pp_current_position \in SteerPts
    /\ pp_target_position \in SteerPts
    /\ pp_current_heading \in SteerHeadings
    /\ pp_result = ZeroSteer
    /\ ImgIdle /\ PollIdle

\* Lines 24-31.
SteerCall ==
    /\ ppc = "call"
    /\ pp_result' = pure_pursuit_control(pp_current_position, pp_current_heading,
                                         pp_target_position)
    /\ ppc' = "returned"
    /\ UNCHANGED <<pp_current_position, pp_current_heading, pp_target_position>>
    /\ UNCHANGED <<astarVars, simVars, mainVars, driveVars, imgVars, pollVars>>

SteerNext == SteerCall

SpecSteer == SteerInit /\ [][SteerNext]_vars

----------------------------------------------------------------------------
(* utils/robust_image.py and utils/image_utils.py: get_image_safe over get_image *)

MaxRetries == 3

\* What one attempt of get_image can meet: the simulator call raises, answers
\* with nothing, answers with bytes cv2.imdecode cannot read, or with an image.
ImgOutcomes == {"exception", "empty", "undecodable", "image"}

ImgInit ==
    /\ AstarNotRun
    /\ DriveIdle
    /\ SteerIdle
    /\ ipc = "loop"
    /\ img_module \in {"robust_image", "image_utils"}
    /\ return_none_on_error \in (IF img_module = "image_utils" THEN BOOLEAN ELSE {TRUE})
    /\ retries \in 0 .. MaxRetries
    /\ compress \in BOOLEAN
    /\ compress_arg = compress
    /\ attempt = 0
    /\ last_error = "none"
    /\ img_result = "none"
    /\ methods = <<>> /\ sleeps = 0
    /\ PollIdle

\* A faulty variant, for C38: get_image sleeps after every failed attempt.
SleepsAfterEveryFailure == attempt < retries

\* robust_image.py 111-112, image_utils.py 101-102: no sleep on the last attempt.
SleepsAfterFailure == attempt < retries - 1

\* A faulty variant, for C37: only robust_image changes the method.
SwitchesStrategyRobustOnly ==
    /\ attempt = 0 /\ compress
    /\ img_module = "robust_image" /\ attempt < retries - 1

\* A faulty variant, for C30: the method is changed after the second failure.
SwitchesStrategyLate ==
    /\ attempt = 1 /\ compress
    /\ img_module = "robust_image" => attempt < retries - 1

\* robust_image.py 111-117 rebinds compress only when another attempt follows;
\* image_utils.py 101-107 rebinds it after every failed first attempt.
SwitchesStrategy ==
    /\ attempt = 0 /\ compress
    /\ img_module = "robust_image" => attempt < retries - 1

\* Lines 63 and 81: simGetImages with compression, else simGetImage.
Method(c) == IF c THEN "compressed" ELSE "uncompressed"

\* One pass of the for loop whose try block reaches `return img`
\* (robust_image.py 58-104, image_utils.py 49-95); get_image_safe hands it on.
ImgAttemptSucceeds ==
    /\ ipc = "loop" /\ attempt < retries
    /\ img_result' = "image"
    /\ methods' = Append(methods, Method(compress))
    /\ ipc' = "returned"
    /\ UNCHANGED <<img_module, return_none_on_error, retries, compress, attempt, last_error,
                   compress_arg, sleeps>>
    /\ UNCHANGED <<astarVars, simVars, mainVars, driveVars, steerVars, pollVars>>

\* One pass of the for loop that ends in `except Exception` (robust_image.py
\* 106-117, image_utils.py 97-107): every failure, raised by the simulator call
\* or by the validation of its answer, is caught there.
ImgAttemptFails ==
    /\ ipc = "loop" /\ attempt < retries
    /\ \E o \in ImgOutcomes \ {"image"} : last_error' = o
    /\ compress' = IF SwitchesStrategy THEN FALSE ELSE compress
    /\ attempt' = attempt + 1
    /\ methods' = Append(methods, Method(compress))
    /\ sleeps' = IF SleepsAfterFailure THEN sleeps + 1 ELSE sleeps
    /\ UNCHANGED <<ipc, img_module, return_none_on_error, retries, compress_arg, img_result>>
    /\ UNCHANGED <<astarVars, simVars, mainVars, driveVars, steerVars, pollVars>>

\* What get_image itself does when every attempt failed: robust_image.py
\* returns None (line 122), image_utils.py raises ImageRetrievalError (line 112).
ExhaustedOutcome(module) == IF module = "robust_image" THEN "None" ELSE "raised"

\* A faulty variant, for C19: the wrapper lets the failure of get_image through.
SafeResultReraises(module, none_on_error) == "raised"

\* What get_image_safe makes of a get_image that ran out of attempts.
\* robust_image.py: get_image returns None (119-122), handed on at 137.
\* image_utils.py: get_image raises ImageRetrievalError (109-112); the wrapper
\* returns None when return_none_on_error, else raises again (139-146).
SafeResult(module, none_on_error) ==
    IF module = "robust_image" THEN "None"
    ELSE IF none_on_error THEN "None" ELSE "raised"

\* A faulty variant, for C29: the loop gives up one attempt early.
ImgExhaustedEarly ==
    /\ ipc = "loop" /\ attempt >= retries - 1
    /\ img_result' = SafeResult(img_module, return_none_on_error)
    /\ ipc' = "returned"
    /\ UNCHANGED <<img_module, return_none_on_error, retries, compress, attempt, last_error,
                   compress_arg, methods, sleeps>>
    /\ UNCHANGED <<astarVars, simVars, mainVars, driveVars, steerVars, pollVars>>

\* The loop is over without an image.
ImgExhausted ==
    /\ ipc = "loop" /\ attempt >= retries
    /\ img_result' = SafeResult(img_module, return_none_on_error)
    /\ ipc' = "returned"
    /\ UNCHANGED <<img_module, return_none_on_error, retries, compress, attempt, last_error,
                   compress_arg, methods, sleeps>>
    /\ UNCHANGED <<astarVars, simVars, mainVars, driveVars, steerVars, pollVars>>

ImgNext == ImgAttemptSucceeds \/ ImgAttemptFails \/ ImgExhausted

SpecImage == ImgInit /\ [][ImgNext]_vars

----------------------------------------------------------------------------
(* detection/object_detection.py: yolov10_object_detection, called repeatedly *)

\* The calls followed, one after the other (a tick each in control_vehicle).
MaxPolls == 3
\* Line 21: retries=3.
PollRetries == 3

PollInit ==
    /\ AstarNotRun
    /\ DriveIdle
    /\ SteerIdle
    /\ ImgIdle
    /\ opc = "call" /\ poll_key = "none" /\ poll_results = <<>>

\* Line 21: get_image_safe(client, camera="0", retries=3, sleep=0.2, compress=True)
\* of utils.robust_image is entered.
PollCall ==
    /\ opc = "call" /\ Len(poll_results) < MaxPolls
    /\ opc' = "image"
    /\ ipc' = "loop"
    /\ img_module' = "robust_image"
    /\ return_none_on_error' = TRUE
    /\ retries' = PollRetries
    /\ compress' = TRUE /\ compress_arg' = TRUE
    /\ attempt' = 0
    /\ last_error' = "none"
    /\ img_result' = "none"
    /\ methods' = <<>> /\ sleeps' = 0
    /\ UNCHANGED <<poll_key, poll_results>>
    /\ UNCHANGED <<astarVars, simVars, mainVars, driveVars, steerVars>>

\* A faulty variant, for C31: a poll without an image asks for a stop.
NoImageResultStop == "False"

\* Line 24: `return True`.
NoImageResult == "True"

\* Lines 23-24: img is None.
PollNoImage ==
    /\ opc = "image" /\ ipc = "returned"
    /\ img_result = "None"
    /\ poll_results' = Append(poll_results, NoImageResult)
    /\ poll_key' = "none"
    /\ opc' = "call"
    /\ UNCHANGED <<astarVars, simVars, mainVars, driveVars, steerVars, imgVars>>

\* Lines 26-43: detection, display, and the key read by cv2.waitKey; the
\* detector or the display raising leaves the function with that exception.
PollDetect ==
    /\ opc = "image" /\ ipc = "returned"
    /\ img_result = "image"
    /\ \E k \in {"q", "other", "none", "raises"} :
          IF k = "raises"
          THEN opc' = "raised" /\ UNCHANGED <<poll_key, poll_results>>
          ELSE /\ poll_key' = k
               /\ poll_results' = Append(poll_results, IF k = "q" THEN "False" ELSE "True")
               /\ opc' = "call"
    /\ UNCHANGED <<astarVars, simVars, mainVars, driveVars, steerVars, imgVars>>

PollNext ==
    \/ PollCall
    \/ ImgAttemptSucceeds
    \/ ImgAttemptFails
    \/ ImgExhausted
    \/ PollNoImage
    \/ PollDetect

SpecPoll == PollInit /\ [][PollNext]_vars

----------------------------------------------------------------------------
(* Route planning: what the claims speak of *)

AstarFinished == apc \in {"returned", "raised"}

\* A Roadmap of the data model: two aligned mappings over a non-empty node set,
\* every neighbour being a node.
WellFormed ==
    /\ DOMAIN coordinates # {}
    /\ DOMAIN graph = DOMAIN coordinates
    /\ \A n \in DOMAIN graph : \A j \in 1 .. Len(graph[n]) : graph[n][j] \in DOMAIN coordinates

HasEdge(u, v) == u \in DOMAIN graph /\ \E j \in 1 .. Len(graph[u]) : graph[u][j] = v

\* The directed walks from s to g over at most as many nodes as the roadmap
\* has: they include every simple path, and a walk that repeats a node is never
\* shorter than the simple path it contains.
Walks(s, g) ==
    LET keys == DOMAIN coordinates
    IN  {p \in UNION {[1 .. n -> keys] : n \in 1 .. Cardinality(keys)} :
            /\ p[1] = s
            /\ p[Len(p)] = g
            /\ \A i \in 1 .. (Len(p) - 1) : HasEdge(p[i], p[i + 1])}

RECURSIVE SumDist(_, _)
SumDist(cs, i) ==
    IF i >= Len(cs) THEN 0 ELSE heuristic(cs[i], cs[i + 1]) + SumDist(cs, i + 1)

\* Total Euclidean length of a sequence of coordinates.
RouteLen(r) == SumDist(r, 1)
WalkLen(p) == RouteLen([i \in 1 .. Len(p) |-> coordinates[p[i]]])

Reachable == Walks(start_node, goal_node) # {}

\* C1: whenever a directed path leads from the snapped start to the snapped goal
\* of a roadmap, astar returns, and the route it returns is no longer than any
\* directed path from the snapped start to the snapped goal.
C1_RouteIsShortest ==
    (AstarFinished /\ WellFormed /\ Reachable) =>
        /\ apc = "returned"
        /\ \A p \in Walks(start_node, goal_node) : RouteLen(route) <= WalkLen(p)

\* C1's case: a complete route of three nodes or more was returned where a
\* strictly longer path to the goal exists too.
C1_Witness ==
    /\ apc = "returned" /\ WellFormed
    /\ Len(route) >= 3
    /\ route[1] = coordinates[start_node]
    /\ route[Len(route)] = coordinates[goal_node]
    /\ \E p \in Walks(start_node, goal_node) : WalkLen(p) > RouteLen(route)

\* C2: whenever a directed path exists between the snapped nodes, astar returns
\* a non-empty route each of whose consecutive coordinate pairs belongs to
\* nodes u, v with v in graph[u].
C2_RouteFollowsEdges ==
    (AstarFinished /\ WellFormed /\ Reachable) =>
        /\ apc = "returned"
        /\ route # <<>>
        /\ \A i \in 1 .. (Len(route) - 1) :
              \E u \in DOMAIN coordinates, v \in DOMAIN coordinates :
                 /\ coordinates[u] = route[i]
                 /\ coordinates[v] = route[i + 1]
                 /\ HasEdge(u, v)

\* C3: whenever the snapped goal cannot be reached from the snapped start along
\* directed edges, astar returns the empty route.
C3_UnreachableGivesEmpty ==
    (AstarFinished /\ WellFormed /\ ~Reachable) =>
        (apc = "returned" /\ route = <<>>)

\* C3's case: the search expanded nodes, ran out of frontier and returned.
C3_Witness ==
    /\ apc = "returned" /\ WellFormed /\ ~Reachable
    /\ pops >= 2
    /\ route = <<>>

\* C4: every non-empty route astar returns starts at the coordinate of the
\* snapped start node and ends at the coordinate of the snapped goal node.
C4_RouteEndpoints ==
    (apc = "returned" /\ route # <<>>) =>
        /\ route[1] = coordinates[start_node]
        /\ route[Len(route)] = coordinates[goal_node]

----------------------------------------------------------------------------
(* The drive: what the claims speak of *)

Events(log) == {log[i] : i \in 1 .. Len(log)}

\* The events of a tick that are commands of its nominal part.
TickCommands == {"front_stop", "tick"}

\* A step in which the thread sends a command to the vehicle.
IssuesDriveCommand ==
    \/ TickFrontBlocked
    \/ TickIssue
    \/ RevStep
    \/ RevExitFront
    \/ RevExitStuck
    \/ DriveStop

\* A step in which main writes the shared controls, commands the vehicle or
\* releases control authority.
MainTouchesVehicle ==
    \/ MainFinallySimple
    \/ MainCleanupSet
    \/ MainCleanupSend
    \/ MainCleanupRelease

SafeStop(cmd) == cmd.ctl.throttle = 0 /\ cmd.ctl.brake = 1

\* C5: in a tick whose perception poll returned false the drive loop issues no
\* driving command: it leaves the loop for the stop sequence.
C5_FalsePollEndsDrive ==
    [][lastPoll = "False" =>
          /\ dpc' \in {"decide", "stop", "release", "done"}
          /\ ~(tickLog' # tickLog /\ Len(tickLog') > 0
                /\ tickLog'[Len(tickLog')] \in TickCommands)]_vars

\* C6: once main has been interrupted and control authority is released, the
\* last command the vehicle received (if it received any) has throttle 0 and
\* the brake applied, and the drive loop issues no command from then on.
C6_CancelStopsSafely ==
    /\ []((interrupted /\ ~apiControl /\ lastCmd.src # "none") => SafeStop(lastCmd))
    /\ [][interrupted /\ ~apiControl => ~IssuesDriveCommand]_vars

\* C7: while the drive thread is alive and holds control authority, main
\* neither writes car_controls, nor commands the vehicle, nor releases control.
C7_MainKeepsOff ==
    [][(alive /\ ThreadAlive /\ apiControl) => ~MainTouchesVehicle]_vars

\* C8: the last command of the drive loop is the stop command (throttle 0,
\* brake 1) sent after the route is exhausted; the loop releases control only
\* after it, and nothing releases control before while main only monitors.
C8_DoneSequence ==
    /\ dpc \in {"release", "done"} =>
          /\ driveCmd.src = "final" /\ SafeStop(driveCmd)
          /\ wp = Len(path)
    /\ dpc \notin {"release", "done"} => driveCmd.src # "final"
    /\ dpc = "done" => ~apiControl
    /\ (mpc = "monitor" /\ dpc # "done") => (apiControl /\ lastCmd = driveCmd)

C8_Witness ==
    /\ dpc = "done" /\ ~apiControl
    /\ Len(path) = MaxRouteLen /\ wp = Len(path)
    /\ driveCmd.src = "final" /\ lastCmd = driveCmd

\* C9: in a tick whose front reading is below 4, whatever the four lateral
\* readings, no steering override is applied; the loop sends the zero-throttle
\* command and runs go_reverse with the current waypoint as its target.
C9_FrontPreempts ==
    (frame # NoFrame /\ frame.front < FrontStop /\ dpc # "decide") =>
        /\ "override" \notin Events(tickLog)
        /\ "front_stop" \in Events(tickLog)
        /\ \/ dpc \in {"rev_init", "rev_loop"} /\ ret = "front"
           \/ dpc = "issue" /\ "rev_exit" \in Events(tickLog)
        /\ driveCmd.src = "rev" =>
              /\ driveCmd.ctl.steering =
                    pure_pursuit_control(rev_position, ReverseHeading, path[wp])
              /\ driveCmd.ctl.throttle = ReverseSpeed

C9_Witness ==
    /\ frame # NoFrame /\ frame.front < FrontStop
    /\ frame.left < SideStop /\ frame.right < SideStop
    /\ dpc = "rev_loop" /\ ret = "front"
    /\ driveCmd.src = "rev"

\* C10: in a tick with the front blocked, no command follows the return of
\* go_reverse.
C10_NoCommandAfterRecovery ==
    \A i \in 1 .. Len(tickLog) : \A j \in 1 .. Len(tickLog) :
        (tickLog[i] = "rev_exit" /\ i < j) => tickLog[j] \notin TickCommands

\* go_reverse is running, or has returned in the current tick.
RecoveryRunning == dpc \in {"rev_init", "rev_loop"}
RecoveryReturned == "rev_exit" \in Events(tickLog)

\* C11: from the call of go_reverse to the end of the tick in which it
\* returned, the loop stays with the waypoint it had: the index does not move
\* and the tick does not break out to the next waypoint, so the next forward
\* command pursues the same waypoint.
C11_SameWaypointAfterRecovery ==
    [][(RecoveryRunning \/ RecoveryReturned) => (wp' = wp /\ dpc' # "for")]_vars

\* The number of still ticks after which the claim expects recovery.
StuckTick == StuckLimit + 1

\* C12: in a run of ticks without displacement (no arrival, no frontal
\* blockage) the 101st tick ends by calling go_reverse, no such run grows
\* longer, and the counter is 0 when the loop ticks again after the recovery.
C12_StuckAtTick101 ==
    /\ stillRun # None => stillRun <= StuckTick
    /\ (stillRun = StuckTick /\ dpc \notin {"decide", "issue", "arrive"}) =>
          (RecoveryRunning /\ ret = "stuck")
    /\ (stillRun = 0 /\ dpc = "tick") => stuck_counter = 0

\* C13: with an empty route main never acquires control authority, never
\* starts the thread, and no command reaches the vehicle.
C13_EmptyRouteAborts ==
    path = <<>> => (~apiControl /\ dpc = "none" /\ lastCmd = NoCmd)

\* Every adjacency target has a coordinate.
TargetsHaveCoordinates ==
    \A n \in DOMAIN graph : \A j \in 1 .. Len(graph[n]) : graph[n][j] \in DOMAIN coordinates

\* C14: on a non-empty roadmap whose adjacency targets all have coordinates
\* (nodes without an adjacency entry allowed) astar raises nothing.
C14_AstarNeverRaises ==
    (DOMAIN coordinates # {} /\ TargetsHaveCoordinates) => (apc # "raised" /\ error = "")

\* The roadmaps the specification calls configuration errors.
Malformed == DOMAIN coordinates = {} \/ ~TargetsHaveCoordinates

\* C15: on an empty roadmap, or one with an adjacency target that has no
\* coordinate, astar expands no node.
C15_MalformedRejected ==
    [][Malformed => ~AstarExpand]_vars

\* node is what snapping must return for the query coord: nearest of all
\* nodes, first of the nearest in iteration order, and at coord itself when
\* some node is there.
Snapped(node, coord) ==
    /\ node \in DOMAIN coordinates
    /\ \A m \in DOMAIN coordinates :
          /\ Dist2(coord, coordinates[node]) <= Dist2(coord, coordinates[m])
          /\ m < node => Dist2(coord, coordinates[node]) < Dist2(coord, coordinates[m])
    /\ (\E m \in DOMAIN coordinates : coordinates[m] = coord) => coordinates[node] = coord

\* C16: the start and goal nodes astar snaps to are nearest nodes of the
\* queries, the first in iteration order among equally near ones, and lie at
\* the query when a node is there.
C16_NearestNode ==
    apc \in {"loop", "returned"} =>
        (Snapped(start_node, start_coord) /\ Snapped(goal_node, goal_coord))

C16_Witness ==
    /\ apc = "loop"
    /\ \E m \in DOMAIN coordinates : m # start_node /\ coordinates[m] = coordinates[start_node]
    /\ \A m \in DOMAIN coordinates : coordinates[m] = coordinates[start_node] => start_node <= m
    /\ coordinates[goal_node] = goal_coord
    /\ \E m \in DOMAIN coordinates : m < goal_node /\ coordinates[m] # goal_coord

\* An angle within [-30, 30] degrees.
InSteerRange(st) ==
    /\ st[1] \in {-1, 0, 1}
    /\ st[2] >= 0 /\ st[3] > 0
    /\ 3 * st[2] <= st[3]

\* The scenario of the specification: from (0,0), heading 0, to (0,10).
SteerScenario ==
    /\ pp_current_position = <<0, 0>>
    /\ pp_current_heading = 0
    /\ pp_target_position = <<0, 10>>

\* C17: every angle pure_pursuit_control returns lies within [-30, 30]
\* degrees, and the scenario call returns exactly +30 degrees.
C17_SteeringBounded ==
    ppc = "returned" =>
        /\ InSteerRange(pp_result)
        /\ SteerScenario => pp_result = MaxSteer

C17_Witness == ppc = "returned" /\ SteerScenario /\ pp_result = MaxSteer

\* C18: a target at the current position gives zero steering, whatever the heading.
C18_ZeroDistanceZeroSteer ==
    (ppc = "returned" /\ pp_target_position = pp_current_position) => pp_result = ZeroSteer

\* C19 as written: get_image_safe never raises; whatever the attempts meet, it
\* returns an image or None.
C19_SafeNeverRaises == ipc = "returned" => img_result \in {"image", "None"}

\* C19, amended: get_image_safe returns an image or None whatever the attempts
\* meet, unless it is image_utils' and was called with return_none_on_error False.
C19_SafeNeverRaisesByDefault ==
    (ipc = "returned" /\ return_none_on_error) => img_result \in {"image", "None"}

C19_Witness ==
    /\ ipc = "returned" /\ img_module = "image_utils" /\ return_none_on_error
    /\ retries = MaxRetries /\ attempt = retries
    /\ last_error = "exception"
    /\ img_result = "None"

\* The steering C20 expects for a frame: by the left rule, else by the right
\* rule, else pure pursuit toward the current waypoint.
PrioritySteering(fr) ==
    IF fr.left < SideStop \/ fr.front_left < DiagStop THEN MaxSteer
    ELSE IF fr.right < SideStop \/ fr.front_right < DiagStop THEN MinSteer
    ELSE pure_pursuit_control(current_position, car_heading, path[wp])

\* C20: in a tick whose front reading is at least 4, the command of line 106
\* has throttle 0.3 and the steering of the first rule that applies: +30
\* degrees for the left, -30 degrees for the right, else pure pursuit.
C20_LateralPriority ==
    [][(dpc = "issue" /\ dpc' = "arrive" /\ frame.front >= FrontStop) =>
          /\ lastCmd'.src = "tick"
          /\ lastCmd'.ctl.throttle = ForwardThrottle
          /\ lastCmd'.ctl.steering = PrioritySteering(frame)]_vars

\* Both lateral rules apply, the left one set the steering, and pure pursuit
\* would have steered otherwise.
C20_Witness ==
    /\ dpc = "issue" /\ frame # NoFrame /\ frame.front >= FrontStop
    /\ frame.front_left < DiagStop /\ frame.right < SideStop
    /\ car_controls.steering = MaxSteer
    /\ car_controls.throttle = ForwardThrottle
    /\ pure_pursuit_control(current_position, car_heading, path[wp]) # MaxSteer

\* C21: the index moves only from one waypoint to the next; the loop of a
\* waypoint is left only by a tick whose pose reading is strictly less than 5
\* from it; the stop after the loop is reached only from the for statement
\* with every waypoint of the route so left.
C21_RouteOrder ==
    [][/\ wp' \in {wp, wp + 1}
       /\ wp' # wp => (dpc = "for" /\ dpc' = "tick")
       /\ (dpc' = "for" /\ dpc \notin {"for", "none"}) =>
             /\ dpc = "arrive" /\ wp \in 1 .. Len(path)
             /\ Dist2(current_position, path[wp]) < ArrivalRadius * ArrivalRadius
       /\ (dpc' = "stop" /\ dpc # "stop") => (dpc = "for" /\ wp = Len(path))]_vars

\* The whole of a two-waypoint route is behind the vehicle.
C21_Witness ==
    /\ dpc = "stop" /\ wp = MaxRouteLen /\ Len(path) = MaxRouteLen
    /\ path[1] # path[2]
    /\ world = MovingWorld

\* The bookkeeping of a tick that did not arrive: lines 111-118.
Bookkeeping == dpc = "arrive" /\ dpc' \in {"tick", "rev_init"}

C23_RecoveryOccupiesLoop ==
    [][(RecoveryRunning /\ (dpc' = "rev_loop")) =>
          /\ wp' = wp
          /\ stuck_counter' = stuck_counter /\ stuck_position' = stuck_position
          /\ lastPoll' = lastPoll /\ frame' = frame
          /\ tickLog' \in {tickLog, Append(tickLog, "rev")}]_vars

\* A recovery under way in a tick whose frame would call for a lateral
\* override, with a stable position held.
C23_Witness ==
    /\ dpc = "rev_loop" /\ distance_covered > 0
    /\ driveCmd.src = "rev"
    /\ frame # NoFrame /\ frame.left < SideStop
    /\ stuck_position # NoPos

\* A step of the thread inside the loop of go_reverse.
RevLoopStep == dpc = "rev_loop" /\ (pose' # pose \/ dpc' # dpc \/ lastCmd' # lastCmd)

\* C24: go_reverse starts from the caller's position with nothing covered;
\* while less than 5 is covered each turn sends a reverse command and adds the
\* displacement since the previous reading; once 5 or more is covered the
\* loop is left without another reverse command.
C24_ReverseUntilCovered ==
    [][/\ (dpc = "rev_init" /\ dpc' = "rev_loop") =>
             (distance_covered' = 0 /\ rev_position' = rev_position
              /\ rev_position = current_position)
       /\ (RevLoopStep /\ alive /\ distance_covered < ReverseDistance) =>
             /\ dpc' = "rev_loop"
             /\ lastCmd'.src = "rev"
             /\ distance_covered' = distance_covered + distance(rev_position, pose')
             /\ rev_position' = pose'
       /\ (RevLoopStep /\ alive /\ distance_covered >= ReverseDistance) =>
             /\ dpc' # "rev_loop"
             /\ lastCmd'.src = "rev_exit"]_vars

\* Two turns of the loop were needed to cover 5.
C24_Witness ==
    /\ dpc = "rev_loop"
    /\ distance_covered = distance(PosA, PosC) + distance(PosC, PosD)
    /\ distance(PosA, PosC) < ReverseDistance
    /\ driveCmd.src = "rev"

\* C25: every command sent from the loop of go_reverse has the manual gear
\* -1 engaged and throttle -0.3; go_reverse is left only by sending a command
\* with the manual gear off and throttle 0.
C25_ReverseGearInLoop ==
    [][/\ (driveCmd'.src = "rev" /\ driveCmd' # driveCmd) =>
             /\ dpc = "rev_loop"
             /\ driveCmd'.ctl.is_manual_gear /\ driveCmd'.ctl.manual_gear = -1
             /\ driveCmd'.ctl.throttle = -3
       /\ (dpc = "rev_loop" /\ dpc' # "rev_loop") =>
             /\ driveCmd'.src = "rev_exit" /\ lastCmd' = driveCmd'
             /\ ~driveCmd'.ctl.is_manual_gear /\ driveCmd'.ctl.manual_gear = 0
             /\ driveCmd'.ctl.throttle = 0]_vars

\* go_reverse has returned to the tick that saw the front blocked, after
\* reverse commands, with its closing command the last one sent.
C25_Witness ==
    /\ dpc = "issue" /\ "rev" \in Events(tickLog)
    /\ driveCmd.src = "rev_exit"
    /\ ~driveCmd.ctl.is_manual_gear /\ driveCmd.ctl.throttle = 0

\* The place of the i-th event of a tick in the order of lines 86-118; a
\* reverse command after the stuck test belongs to the second go_reverse.
RankAt(log, i) ==
    CASE log[i] = "poll" -> 1
      [] log[i] = "pose" -> 2
      [] log[i] = "sensors" -> 3
      [] log[i] \in {"front_stop", "override"} -> 4
      [] log[i] = "rev" -> IF \E k \in 1 .. i - 1 : log[k] = "stuck" THEN 9 ELSE 5
      [] log[i] = "rev_exit" -> 6
      [] log[i] = "tick" -> 7
      [] log[i] = "stuck" -> 8
      [] OTHER -> 10 + i

TickOrdered(log) == \A i \in 1 .. Len(log) - 1 : RankAt(log, i) < RankAt(log, i + 1)

\* C26: the events of a tick come in the order poll, pose, sensors, command,
\* arrival test, stuck bookkeeping; a tick begins with the previous one
\* closed; the command of a tick is computed from the pose, heading and frame
\* read in that tick.
C26_TickOrder ==
    /\ TickOrdered(tickLog)
    /\ dpc = "tick" => tickLog = <<>>
    /\ dpc \in {"decide", "issue", "arrive", "rev_init", "rev_loop"} =>
          (Len(tickLog) >= 3 /\ SubSeq(tickLog, 1, 3) = <<"poll", "pose", "sensors">>)
    /\ dpc \in {"decide", "issue"} =>
          /\ current_position # NoPos /\ car_heading # None /\ frame # NoFrame
          /\ "front_stop" \notin Events(tickLog) =>
                /\ current_position = pose
                /\ car_controls.throttle = ForwardThrottle
                /\ car_controls.steering =
                      IF "override" \in Events(tickLog)
                      THEN (IF frame.left < SideStop \/ frame.front_left < DiagStop
                            THEN MaxSteer ELSE MinSteer)
                      ELSE pure_pursuit_control(current_position, car_heading, path[wp])
    /\ dpc = "arrive" => (tickLog[Len(tickLog)] = "tick" /\ driveCmd.src = "tick")
    /\ "stuck" \in Events(tickLog) => "tick" \in Events(tickLog)

\* A whole tick, up to the stuck bookkeeping that calls go_reverse.
C26_Witness ==
    /\ dpc = "rev_init"
    /\ tickLog = <<"poll", "pose", "sensors", "tick", "stuck">>

\* C27: of the frontier entries whose fScore equals that of the entry popped
\* next, the popped one was inserted first (open_list is in insertion order).
C27_TiesByInsertion ==
    (apc = "loop" /\ open_list # <<>>) =>
        LET i == HeapPopIndex(open_list)
        IN  \A j \in 1 .. Len(open_list) :
               open_list[j][1] = open_list[i][1] => i <= j

\* The number of frontier entries of node n.
Pushed(open, n) == Cardinality({i \in 1 .. Len(open) : open[i][2] = n})

\* C28: during the search a node gains a frontier entry only in a step that
\* strictly lowers its gScore, and every call of astar comes to an end; on a
\* roadmap whose mappings are aligned it ends by returning.
C28_AstarTerminates ==
    /\ [][apc = "loop" =>
             \A n \in DOMAIN coordinates :
                Pushed(open_list', n) > Pushed(open_list, n) => g_score'[n] < g_score[n]]_vars
    /\ <>AstarFinished
    /\ WellFormed => <>(apc = "returned")

\* astar returned on a roadmap with a directed cycle of zero-length edges,
\* both of whose nodes were reached.
C28_Witness ==
    /\ apc = "returned" /\ WellFormed
    /\ \E a, b \in DOMAIN coordinates :
          /\ a # b /\ HasEdge(a, b) /\ HasEdge(b, a)
          /\ coordinates[a] = coordinates[b]
          /\ g_score[a] < Infinity /\ g_score[b] < Infinity
          /\ a # goal_node /\ b # goal_node
    /\ pops >= 3

\* C29: robust_image.get_image fails at most `retries` times; an attempt
\* that succeeds ends the call with its image, no attempt following; None is
\* returned exactly when `retries` attempts have failed (none when retries = 0).
C29_AttemptsBounded ==
    /\ [](img_module = "robust_image" =>
            /\ attempt <= retries
            /\ ipc = "returned" =>
                  /\ img_result \in {"image", "None"}
                  /\ img_result = "image" => attempt < retries
                  /\ img_result = "None" <=> attempt = retries)
    /\ [][ipc = "returned" => UNCHANGED imgVars]_vars

\* The last of three attempts gave the image.
C29_Witness ==
    /\ ipc = "returned" /\ img_module = "robust_image"
    /\ retries = MaxRetries /\ attempt = retries - 1
    /\ img_result = "image"

\* C30: the first attempt uses the method the caller asked for; an attempt
\* after a failed one uses the uncompressed method; a call with compress
\* False never uses the compressed one.
C30_CompressStrategy ==
    /\ attempt = 0 => compress = compress_arg
    /\ (attempt >= 1 /\ attempt < retries) => ~compress
    /\ ~compress_arg => ~compress

\* A call with compress True whose third attempt, uncompressed, gave the image.
C30_Witness ==
    /\ ipc = "returned" /\ img_result = "image"
    /\ compress_arg /\ ~compress
    /\ attempt = MaxRetries - 1

\* The result of the call of yolov10_object_detection that returned last.
LastPoll == poll_results[Len(poll_results)]

BeforeEnable == mpc \in {"plan", "connect", "enable"}

\* C32: main takes control authority, resets the vehicle and starts the
\* thread in that order, each only after a validation that returned True;
\* a main that returned on a validation that did not has done none of them
\* and no command was sent.
C32_ValidateBeforeVehicle ==
    /\ (apiControl \/ dpc # "none" \/ lastCmd # NoCmd \/ (~BeforeEnable /\ mpc # "returned"))
          => validated = "True"
    /\ BeforeEnable => (~apiControl /\ dpc = "none" /\ lastCmd = NoCmd)
    /\ mpc = "reset" => (apiControl /\ dpc = "none")
    /\ mpc = "start" => (apiControl /\ pose = PosA /\ dpc = "none")
    /\ (mpc = "returned" /\ validated # "True") =>
          (~apiControl /\ dpc = "none" /\ lastCmd = NoCmd)

\* The simple main validated, took control, reset, and its thread is driving.
C32_Witness ==
    /\ entry = "simple" /\ validated = "True"
    /\ mpc = "monitor" /\ apiControl
    /\ dpc = "arrive" /\ lastCmd.src = "tick"

InReverseGear(ctl) == ctl.is_manual_gear /\ ctl.manual_gear = -1

GearConsistent(ctl) ==
    /\ ctl.throttle < 0 => InReverseGear(ctl)
    /\ ctl.throttle > 0 => ~InReverseGear(ctl)

\* C34: every command sent to the vehicle has the reverse gear engaged when
\* its throttle is negative and not engaged when its throttle is positive.
C34_GearConsistent ==
    /\ GearConsistent(lastCmd.ctl)
    /\ GearConsistent(driveCmd.ctl)

\* A reverse command of a stuck recovery on the second waypoint.
C34_Witness ==
    /\ dpc = "rev_loop" /\ ret = "stuck" /\ wp = MaxRouteLen
    /\ driveCmd.src = "rev" /\ lastCmd = driveCmd
    /\ driveCmd.ctl.throttle < 0 /\ InReverseGear(driveCmd.ctl)

\* A world in which no reading of the pose differs from the one before.
Frozen(w) == \A p \in w.poses : w.step[p] = {p}

\* C35: go_reverse leaves its loop exactly when the displacement summed over
\* its turns has reached 5: it never leaves with less, it makes no further
\* turn with 5 or more, and a turn that reads the position it had before
\* adds nothing.
\* With the thread scheduled fairly and the vehicle displacing again and
\* again, a maneuver that started comes to its end; with a pose that never
\* changes, it never leaves the loop.
C35_ReverseCompletion ==
    /\ [][/\ (dpc = "rev_loop" /\ dpc' # "rev_loop") =>
                distance_covered >= ReverseDistance
          /\ (dpc = "rev_loop" /\ dpc' = "rev_loop"
                               /\ distance_covered >= ReverseDistance) =>
                UNCHANGED driveVars
          /\ (dpc = "rev_loop" /\ dpc' = "rev_loop" /\ pose' = rev_position) =>
                distance_covered' = distance_covered
          /\ (dpc = "rev_loop" /\ Frozen(world)) => dpc' = "rev_loop"]_vars
    /\ (RecoveryRunning /\ ~Frozen(world)) ~> ~RecoveryRunning

\* A maneuver that returned after five displaced readings of one unit each.
C35_Witness ==
    /\ path = FairRoute /\ ~Frozen(world)
    /\ lastCmd.src = "rev_exit" /\ RecoveryReturned
    /\ pose = PosB

\* A maneuver in a frozen world, a reverse command sent and nothing covered.
C35_FrozenWitness ==
    /\ path = FairRoute /\ Frozen(world)
    /\ dpc = "rev_loop" /\ lastCmd.src = "rev" /\ distance_covered = 0

\* C36: when start and goal snap to the same node, astar returns the route of
\* that node's coordinate alone, after one pop and without expanding a
\* neighbor.
C36_SameNodeRoute ==
    (apc = "returned" /\ start_node = goal_node) =>
        /\ route = <<coordinates[start_node]>>
        /\ pops = 1 /\ open_list = <<>>

\* The methods of n attempts of a call made with the compress flag c: the
\* first as asked, every later one uncompressed.
MethodsOf(c, n) == [i \in 1 .. n |-> IF i = 1 THEN Method(c) ELSE "uncompressed"]

\* C37: with retries >= 1, the attempts made and the method of each attempt
\* are the same function of the compress flag and of how many attempts failed
\* in both modules: attempts go on until the first success or until retries
\* of them failed. The modules part only when all attempts failed:
\* robust_image's get_image returns None, image_utils's raises.
C37_SameAttempts ==
    retries >= 1 =>
        /\ methods = MethodsOf(compress_arg, Len(methods))
        /\ Len(methods) = attempt + (IF img_result = "image" THEN 1 ELSE 0)
        /\ attempt <= retries /\ Len(methods) <= retries
        /\ ipc = "returned" =>
              /\ img_result = "image" \/ attempt = retries
              /\ img_result # "image" =>
                    img_result = (IF ExhaustedOutcome(img_module) = "raised"
                                     /\ ~return_none_on_error
                                  THEN "raised" ELSE "None")

\* image_utils ran out of three attempts, the first compressed, and raised.
C37_Witness ==
    /\ ipc = "returned" /\ img_module = "image_utils" /\ ~return_none_on_error
    /\ retries = MaxRetries
    /\ methods = <<"compressed", "uncompressed", "uncompressed">>
    /\ img_result = "raised"

\* The failed attempts so far that another attempt follows.
FollowedFailures == {a \in 0 .. attempt - 1 : a + 1 < retries}

\* C38: get_image has slept once for each failed attempt that another attempt
\* follows, and not otherwise: a sleep comes only with a failed attempt that
\* is not the last, and neither a success nor the end of the loop sleeps.
C38_SleepsBetweenAttempts ==
    /\ [](sleeps = Cardinality(FollowedFailures))
    /\ [][/\ sleeps' # sleeps =>
                /\ sleeps' = sleeps + 1
                /\ attempt' = attempt + 1 /\ attempt' < retries
                /\ img_result' = "none"
          /\ (attempt' = attempt + 1 /\ attempt' < retries) => sleeps' = sleeps + 1
          /\ ipc' = "returned" => sleeps' = sleeps]_vars

\* Three failed attempts of robust_image and two sleeps, none after the last.
C38_Witness ==
    /\ ipc = "returned" /\ img_module = "robust_image"
    /\ retries = MaxRetries /\ attempt = retries
    /\ sleeps = MaxRetries - 1

====
